---- MODULE Spec2Model ----
(***************************************************************************)
(* Model of fibs::Fibonacci<T> (src/src/lib.rs): the iterator whose        *)
(* Iterator::next produces the Fibonacci series with checked addition,     *)
(* and the associated function Fibonacci::f(n), which drives a private     *)
(* iterator to get the n-th term or the (max_n, max_value) pair.           *)
(*                                                                         *)
(* Option<X> is modelled as a sequence of length at most one:              *)
(* None is <<>> and Some(x) is <<x>>.  Result<T, (usize, T)> is a record   *)
(* of the two options .ok and .err, as Result::ok() / Result::err() give.  *)
(***************************************************************************)
EXTENDS Integers, Sequences, FiniteSets, TLC

\* ------------------------------------------------------------------ bounds

\* Largest number of next() calls made on the free-standing iterator.
MaxCalls == 30

\* f is called with every index in 0..MaxIndex, and with the two largest
\* indices of the host's index type.
MaxIndex == 28

\* usize::MAX of the modelled host (a 16-bit usize, the narrowest Rust has).
HostMaxIndex == 65535

\* ------------------------------------------------------- the numeric type T

Types == {"i8", "u8", "i16", "u16"}

TypeMax(t) ==
    CASE t = "i8"  -> 127
      [] t = "u8"  -> 255
      [] t = "i16" -> 32767
      [] t = "u16" -> 65535

TypeMin(t) ==
    CASE t = "i8"  -> -128
      [] t = "u8"  -> 0
      [] t = "i16" -> -32768
      [] t = "u16" -> 0

None == <<>>
Some(x) == <<x>>

\* T::zero() and T::one()
Zero == 0
One == 1

\* A wrapping addition: what a + b gives in T when overflow is not checked.
WrappingAdd(t, a, b) ==
    Some(TypeMin(t) + ((a + b - TypeMin(t)) % (TypeMax(t) - TypeMin(t) + 1)))

\* CheckedAdd::checked_add(&a, &b): None when the sum does not fit T.
CheckedAdd(t, a, b) ==
    IF a + b > TypeMax(t) \/ a + b < TypeMin(t) THEN None ELSE Some(a + b)

\* Option::or_else(|| Some(d)) and Option::unwrap_or_else(|| d)
OrElseSome(o, d) == IF o = None THEN Some(d) ELSE o
UnwrapOr(o, d) == IF o = None THEN d ELSE o[1]

\* ------------------------------------------------------------ the iterator

\* Fibonacci::default()
Default == [previous |-> None, current |-> None]

\* An overflow test that looks at `current` alone.
HasOverflowedCurrentOnly(g) == g.current = None

\* Fibonacci::has_overflowed
HasOverflowed(g) == g.current = None /\ g.previous # None

\* A next() that takes `previous` before it tests for overflow, so that an
\* exhausted iterator is left in the empty state.
NextTakesPreviousFirst(t, g) ==
    IF HasOverflowed(g)
    THEN [gen |-> [previous |-> None, current |-> g.current], ret |-> None]
    ELSE LET current == OrElseSome(g.current, Zero)
             next == IF current = None
                     THEN None
                     ELSE CheckedAdd(t, current[1], UnwrapOr(g.previous, One))
         IN  [gen |-> [previous |-> current, current |-> next],
              ret |-> OrElseSome(g.current, Zero)]

\* A next() that returns the newly computed sum instead of the old current.
NextReturnsSum(t, g) ==
    IF HasOverflowed(g)
    THEN [gen |-> g, ret |-> None]
    ELSE LET current == OrElseSome(g.current, Zero)
             next == IF current = None
                     THEN None
                     ELSE CheckedAdd(t, current[1], UnwrapOr(g.previous, One))
         IN  [gen |-> [previous |-> current, current |-> next],
              ret |-> next]

\* <Fibonacci<T> as Iterator>::next: the iterator after the call (.gen) and
\* the value returned (.ret).
IterNext(t, g) ==
    IF HasOverflowed(g)
    THEN [gen |-> g, ret |-> None]
    ELSE LET current == OrElseSome(g.current, Zero)
             \* current.clone().and_then(|c| c.checked_add(
             \*     &self.previous.take().unwrap_or_else(T::one)))
             next == IF current = None
                     THEN None
                     ELSE CheckedAdd(t, current[1], UnwrapOr(g.previous, One))
         IN  [gen |-> [previous |-> current, current |-> next],
              \* mem::replace(&mut self.current, next).or_else(|| Some(zero))
              ret |-> OrElseSome(g.current, Zero)]

\* ------------------------------------------------------------- Fibonacci::f

\* Result<T, (usize, T)>
Ok(v) == [ok |-> Some(v), err |-> None]
Err(n, v) == [ok |-> None, err |-> Some(<<n, v>>)]
NoResult == [ok |-> None, err |-> None]

\* A range that ends one past n, as `take(n + 1)` would need.
RangeEndPlusOne(n) == n + 1

\* The end of the range `0..n` that f's loop runs over.
RangeEnd(n) == n

\* The indices f is called with.
Indices == (0..MaxIndex) \cup {HostMaxIndex - 1, HostMaxIndex}

VARIABLES
    T,        \* the numeric type the iterators are over
    gen,      \* the free-standing iterator: [previous, current]
    calls,    \* number of next() calls made on gen
    ret,      \* what the latest next() call on gen returned
    out,      \* the values gen has yielded so far, in order
    fpc,      \* where f is: "idle", "loop", "final", "done", "panicked"
    fn,       \* f's argument n
    fiter,    \* f's `iter`
    flast,    \* f's `last`
    fstart,   \* the range's next index (the loop counter's next value)
    fend,     \* the range's end
    fcalls,   \* number of iter.next() calls f has made
    fres      \* f's return value

vars == <<T, gen, calls, ret, out, fpc, fn, fiter, flast, fstart, fend, fcalls, fres>>

genVars == <<gen, calls, ret, out>>
fVars == <<fpc, fn, fiter, flast, fstart, fend, fcalls, fres>>

Init ==
    /\ T \in Types
    /\ gen = Default
    /\ calls = 0
    /\ ret = None
    /\ out = <<>>
    /\ fpc = "idle"
    /\ fn = 0
    /\ fiter = Default
    /\ flast = None
    /\ fstart = 0
    /\ fend = 0
    /\ fcalls = 0
    /\ fres = NoResult

\* One call of next() on the free-standing iterator.
GenNext ==
    /\ calls < MaxCalls
    /\ LET r == IterNext(T, gen)
       IN  /\ gen' = r.gen
           /\ ret' = r.ret
           /\ out' = IF r.ret = None THEN out ELSE Append(out, r.ret[1])
    /\ calls' = calls + 1
    /\ UNCHANGED <<T, fVars>>

\* f(n) is entered: `let mut iter = Self::default(); let mut last = None;`
\* and the range 0..n is built.
FCall(n) ==
    /\ fpc \in {"idle", "done"}
    /\ fpc' = "loop"
    /\ fn' = n
    /\ fiter' = Default
    /\ flast' = None
    /\ fstart' = 0
    /\ fend' = RangeEnd(n)
    /\ fcalls' = 0
    /\ fres' = NoResult
    /\ UNCHANGED <<T, genVars>>

\* The range is not empty: one iteration of `for i in 0..n`.
FLoopStep ==
    /\ fpc = "loop"
    /\ fstart < fend
    /\ LET i == fstart
           r == IterNext(T, fiter)
       IN  /\ fstart' = fstart + 1
           /\ fiter' = r.gen
           /\ fcalls' = fcalls + 1
           /\ IF r.ret # None
              THEN /\ flast' = Some(r.ret[1])
                   /\ fpc' = "loop"
                   /\ fres' = fres
              ELSE IF i = 0 \/ flast = None
              THEN \* zero_failed(), or last.unwrap() on None
                   /\ flast' = flast
                   /\ fpc' = "panicked"
                   /\ fres' = fres
              ELSE /\ flast' = flast
                   /\ fpc' = "done"
                   /\ fres' = Err(i - 1, flast[1])
    /\ UNCHANGED <<T, genVars, fn, fend>>

\* The range is exhausted: the loop is left.
FLoopExit ==
    /\ fpc = "loop"
    /\ ~(fstart < fend)
    /\ fpc' = "final"
    /\ UNCHANGED <<T, genVars, fn, fiter, flast, fstart, fend, fcalls, fres>>

\* The `iter.next().ok_or_else(..)` after the loop.
FFinal ==
    /\ fpc = "final"
    /\ LET r == IterNext(T, fiter)
       IN  /\ fiter' = r.gen
           /\ fcalls' = fcalls + 1
           /\ IF r.ret # None
              THEN /\ fpc' = "done"
                   /\ fres' = Ok(r.ret[1])
              ELSE IF fn = 0 \/ flast = None
              THEN /\ fpc' = "panicked"
                   /\ fres' = fres
              ELSE /\ fpc' = "done"
                   /\ fres' = Err(fn - 1, flast[1])
    /\ UNCHANGED <<T, genVars, fn, flast, fstart, fend>>

Next ==
    \/ GenNext
    \/ \E n \in Indices : FCall(n)
    \/ FLoopStep
    \/ FLoopExit
    \/ FFinal

Spec == Init /\ [][Next]_vars

\* --------------------------------------------------- the reference series

\* F_k computed by the recurrence: FibFrom(k, F_j, F_j+1) is F_(j+k).
RECURSIVE FibFrom(_, _, _)
FibFrom(k, a, b) == IF k = 0 THEN a ELSE FibFrom(k - 1, b, a + b)

\* The Fibonacci term F_k (F_0 = 0, F_1 = 1, F_k = F_(k-1) + F_(k-2)).
Fib(k) == FibFrom(k, 0, 1)

\* The largest index whose Fibonacci term is representable in t.
MaxNOf ==
    [t \in Types |->
        CHOOSE k \in 0..MaxCalls : Fib(k) <= TypeMax(t) /\ Fib(k + 1) > TypeMax(t)]

MaxN(t) == MaxNOf[t]

InRange(t, v) == TypeMin(t) <= v /\ v <= TypeMax(t)

\* ------------------------------------------------------------------ claims

\* C1: on a fresh iterator the k-th next() call (k from 0) returns exactly
\* F_k whenever F_k is representable in T, and no call returns a value that
\* is outside T's range or is not the true term F_k (a wrapped sum).
C1_KthCallReturnsFk ==
    /\ calls >= 1 =>
         /\ (Fib(calls - 1) <= TypeMax(T) => ret = Some(Fib(calls - 1)))
         /\ (ret # None => InRange(T, ret[1]) /\ ret[1] = Fib(calls - 1))
    /\ \A j \in 1..Len(out) : out[j] = Fib(j - 1) /\ InRange(T, out[j])

C1_Witness ==
    /\ calls = MaxN(T) + 1
    /\ ret = Some(Fib(MaxN(T)))
    /\ Len(out) = calls

\* C2: for every n in 0..maxN, f(n) returns Ok(F_n); in particular f(maxN)
\* is Ok and not Err.
C2_OkUpToMaxN ==
    (fpc = "done" /\ fn <= MaxN(T)) => fres = Ok(Fib(fn))

C2_Witness ==
    /\ fpc = "done"
    /\ fn = MaxN(T)
    /\ fres.ok = Some(Fib(MaxN(T)))
    /\ fres.err = None

\* C3: for every n > maxN (maxN+1, maxN+2, the host's largest index) f(n)
\* returns the same Err((maxN, F_maxN)), and never Ok.
C3_SaturatingErr ==
    (fpc = "done" /\ fn > MaxN(T)) =>
        /\ fres = Err(MaxN(T), Fib(MaxN(T)))
        /\ fres.ok = None

C3_Witness ==
    /\ fpc = "done"
    /\ fn = HostMaxIndex
    /\ fres.err = Some(<<MaxN(T), Fib(MaxN(T))>>)

\* C4: once a next() call on an iterator has returned None, every later
\* next() call on that iterator returns None as well.
C4_Fused ==
    [][(calls >= 1 /\ ret = None) => ret' = None]_vars

C4_Witness ==
    /\ calls >= MaxN(T) + 4
    /\ ret = None
    /\ HasOverflowed(gen)

\* C5: a fresh iterator yields a value on exactly its first maxN+1 calls and
\* returns None for the first time on call maxN+2; over u8 it yields exactly
\* 0,1,1,2,3,5,8,13,21,34,55,89,144,233 and then ends.
C5_ExhaustionThreshold ==
    /\ calls >= 1 => (ret # None <=> calls <= MaxN(T) + 1)
    /\ Len(out) = IF calls <= MaxN(T) + 1 THEN calls ELSE MaxN(T) + 1
    /\ (T = "u8" /\ calls >= 15) =>
           out = <<0, 1, 1, 2, 3, 5, 8, 13, 21, 34, 55, 89, 144, 233>>

C5_Witness ==
    /\ T = "u8"
    /\ calls = 15
    /\ ret = None
    /\ Len(out) = 14

\* C6: for all n, f(n).ok() equals what the last of exactly n+1 next() calls
\* on a fresh iterator returns: Some(F_n) when F_n is representable, and None
\* in both when it is not.
C6_IteratorEquivalence ==
    (fpc = "done" /\ calls = fn + 1) =>
        /\ fres.ok = ret
        /\ (fn <= MaxN(T) => ret = Some(Fib(fn)))
        /\ (fn > MaxN(T) => ret = None)

C6_Witness ==
    /\ fpc = "done"
    /\ calls = fn + 1
    /\ fn = MaxN(T) + 2
    /\ fres.ok = None
    /\ ret = None

\* C7: the thresholds of the fixed-width integers: u8 has maxN = 13 and
\* maxValue = 233 (f(13) = Ok(233), f(14) = f(hostMax) = Err((13, 233)));
\* i8 has 11 and 89; u16 has 24 and 46368; i16 has 23 and 28657.
C7_ConcreteThresholds ==
    fpc = "done" =>
        LET maxN == CASE T = "u8" -> 13 [] T = "i8" -> 11
                      [] T = "u16" -> 24 [] T = "i16" -> 23
            maxValue == CASE T = "u8" -> 233 [] T = "i8" -> 89
                          [] T = "u16" -> 46368 [] T = "i16" -> 28657
        IN  /\ fn = maxN => fres = Ok(maxValue)
            /\ fn < maxN => fres.ok # None /\ fres.ok[1] < maxValue
            /\ fn > maxN => fres = Err(maxN, maxValue)

C7_Witness ==
    /\ T = "u8"
    /\ fpc = "done"
    /\ fn = 14
    /\ fres = Err(13, 233)

\* C8: f never reaches zero_failed (nor a failing unwrap): for every n,
\* n = 0 included, it ends by returning Ok or Err, because next() on a fresh
\* iterator never returns None on its first call.
C8_ZeroFailedUnreachable ==
    /\ fpc # "panicked"
    /\ fpc = "done" => (fres.ok # None) # (fres.err # None)
    /\ calls = 1 => ret # None
    /\ (fcalls = 1 /\ fpc \in {"loop", "final"}) => flast # None

C8_Witness ==
    /\ fpc = "done"
    /\ fn = 0
    /\ fcalls = 1
    /\ fres = Ok(Zero)

\* C9: with n the host's largest index, f never computes n+1 nor any counter
\* above the host's largest index: the counter stays within 0..n, the
\* iterator is consulted at most once more than the counter counted, and the
\* call returns Err((maxN, maxValue)).
C9_NoCounterOverflow ==
    /\ fend <= HostMaxIndex
    /\ fstart <= fend
    /\ fpc # "idle" => fend = fn
    /\ fcalls <= fstart + 1
    /\ fpc = "loop" => fcalls = fstart
    /\ (fpc = "done" /\ fn = HostMaxIndex) =>
           fres = Err(MaxN(T), Fib(MaxN(T)))

C9_Witness ==
    /\ fpc = "done"
    /\ fn = HostMaxIndex
    /\ fend = HostMaxIndex
    /\ fstart = MaxN(T) + 2
    /\ fres.err # None

\* C10 (as claimed): in every non-exhausted state in which current is
\* present, current equals the term most recently returned by next() (and
\* previous is the term before it).
C10_CurrentIsLastEmitted ==
    (calls >= 1 /\ ~HasOverflowed(gen) /\ gen.current # None) =>
        /\ gen.current = ret
        /\ (calls >= 2 => gen.previous = Some(Fib(calls - 2)))

\* C10 (amended): in every non-exhausted state reached by at least one next()
\* call in which current is present, previous equals the term most recently
\* returned by next() and current is the term after it, the one the next
\* call will return.
C10_PreviousIsLastEmitted ==
    (calls >= 1 /\ ~HasOverflowed(gen) /\ gen.current # None) =>
        /\ gen.previous = ret
        /\ ret = Some(Fib(calls - 1))
        /\ gen.current = Some(Fib(calls))

C10_Witness ==
    /\ calls = 4
    /\ ~HasOverflowed(gen)
    /\ ret = Some(2)
    /\ gen.previous = Some(2)
    /\ gen.current = Some(3)

\* C11: a next() call on an exhausted iterator (previous present, current
\* absent) returns None and leaves previous and current unchanged, so the
\* exhausted state is never left.
C11_ExhaustedIsFrozen ==
    [][HasOverflowed(gen) =>
          /\ gen' = gen
          /\ HasOverflowed(gen')
          /\ (calls' = calls + 1 => ret' = None /\ out' = out)]_vars

C11_Witness ==
    /\ calls = MaxN(T) + 3
    /\ HasOverflowed(gen)
    /\ gen.previous = Some(Fib(MaxN(T)))
    /\ ret = None

\* C12: every next() call on a non-exhausted iterator returns the value
\* current held before the call (zero when current was absent), and after
\* the call previous equals the value just returned.
C12_ReturnsOldCurrent ==
    [][(calls' = calls + 1 /\ ~HasOverflowed(gen)) =>
          /\ ret' = (IF gen.current = None THEN Some(Zero) ELSE gen.current)
          /\ gen'.previous = ret'
          /\ ret' # None]_vars

\* A call has returned the old current where the new sum differs from it.
C12_Witness ==
    /\ calls = 5
    /\ ret = Some(3)
    /\ gen.previous = Some(3)
    /\ gen.current = Some(5)
    /\ out = <<0, 1, 1, 2, 3>>

\* The Fibonacci terms representable in t.
FibTerms(t) == {Fib(k) : k \in 0..MaxN(t)}

\* The values an iterator holds in its two fields.
Stored(g) == {o[1] : o \in {g.previous, g.current} \ {None}}

\* C13: every value stored in previous or current, in any reachable state of
\* an iterator, is a true Fibonacci number within T's range; a checked-add
\* overflow is stored as an absent current, never as a wrapped value.
C13_StoredValuesAreTerms ==
    /\ LET terms == FibTerms(T)
       IN  \A v \in Stored(gen) \cup Stored(fiter) :
               v \in terms /\ InRange(T, v)
    /\ (calls >= 1 /\ Fib(calls) > TypeMax(T)) => gen.current = None
    /\ (fcalls >= 1 /\ Fib(fcalls) > TypeMax(T)) => fiter.current = None

\* The sum that overflowed has been stored: current is absent and previous
\* is the last representable term.
C13_Witness ==
    /\ calls = MaxN(T) + 1
    /\ Fib(calls) > TypeMax(T)
    /\ gen.current = None
    /\ Stored(gen) = {Fib(MaxN(T))}

\* The index at which f's iterator returned None: the loop's i when the Err
\* was built in the loop, n when it was built after the loop.
FailingIndex == IF fcalls = fstart THEN fstart - 1 ELSE fn

\* C14: whenever f builds an Err, at least one term has been produced: the
\* failing index is >= 1, so index - 1 does not underflow and last is
\* present, and the pair returned is (index of the last produced term, that
\* term's value).
C14_ErrAfterAtLeastOneTerm ==
    fres.err # None =>
        /\ fpc = "done"
        /\ FailingIndex >= 1
        /\ flast # None
        /\ fcalls >= 2
        /\ fres.err[1][1] = FailingIndex - 1
        /\ fres.err[1][1] = fcalls - 2
        /\ fres.err[1][2] = flast[1]
        /\ flast[1] = Fib(fcalls - 2)

\* The Err built after the loop: n = maxN + 1, the loop produced n terms.
C14_Witness ==
    /\ fres.err # None
    /\ fn = MaxN(T) + 1
    /\ fstart = fn
    /\ fcalls = fn + 1
    /\ FailingIndex = fn
    /\ flast = Some(Fib(fn - 1))

\* f is a synchronous function: once entered, its loop and its final call
\* run to the return, whatever is done with other iterators meanwhile.
FairSpec ==
    Spec /\ WF_vars(FLoopStep) /\ WF_vars(FLoopExit) /\ WF_vars(FFinal)

\* min(n, maxN + 1) + 1
CallsOfF(t, n) == (IF n <= MaxN(t) + 1 THEN n ELSE MaxN(t) + 1) + 1

\* C15: f(n) terminates for every n and makes exactly min(n, maxN+1) + 1
\* next() calls on its private iterator: one for n = 0, n+1 for n <= maxN,
\* and for n > maxN it returns at the first None (after maxN+2 calls)
\* instead of iterating on up to n.
C15_TerminatesWithBoundedCalls ==
    /\ [](fpc = "done" => fcalls = CallsOfF(T, fn))
    /\ [](fpc \in {"loop", "final"} => fcalls < CallsOfF(T, fn))
    /\ ((fpc = "loop") ~> (fpc = "done"))

\* f(usize::MAX - 1) has returned from inside the loop after maxN + 2 calls.
C15_Witness ==
    /\ fpc = "done"
    /\ fn = HostMaxIndex - 1
    /\ fcalls = MaxN(T) + 2
    /\ fstart = fcalls

\* Whether one of the checked adds made by the first k next() calls on a
\* fresh iterator overflowed: call j computes the sum F_j.
AddOverflowed(t, k) == \E j \in 1..k : Fib(j) > TypeMax(t)

\* The encodings of an iterator that has served k next() calls.
ValidEncoding(t, g, k) ==
    /\ (g.previous = None /\ g.current = None) <=> k = 0
    /\ ~(g.previous = None /\ g.current # None)
    /\ k >= 1 => \/ (g.previous # None /\ g.current # None)
                 \/ (g.previous # None /\ g.current = None)
    /\ HasOverflowed(g) <=> AddOverflowed(t, k)

\* C16: after any sequence of next() calls the iterator is in one of three
\* encodings: (None, None) only before the first call, (Some, Some), or
\* (Some, None); (None, Some) is unreachable and the empty state is never
\* re-entered, so has_overflowed is true exactly when a checked add has
\* overflowed.
C16_ThreeEncodings ==
    /\ ValidEncoding(T, gen, calls)
    /\ ValidEncoding(T, fiter, fcalls)

\* The free iterator is exhausted and has been called again, f's own
\* iterator is producing.
C16_Witness ==
    /\ calls = MaxN(T) + 2
    /\ gen.previous # None /\ gen.current = None
    /\ AddOverflowed(T, calls)
    /\ fcalls = 3
    /\ fiter.previous # None /\ fiter.current # None
    /\ ~AddOverflowed(T, fcalls)

\* What current holds after k next() calls: F_k when it is representable.
NextTerm(t, k) == IF Fib(k) <= TypeMax(t) THEN Some(Fib(k)) ELSE None

\* C17: after a next() call returns F_k, previous is F_k and current holds
\* F_(k+1) when that is representable in T and is absent exactly when it is
\* not; so current is the term the next call will return, and the iterator
\* becomes exhausted during the very call that returns F_maxN.
C17_CurrentIsNextTerm ==
    /\ (calls >= 1 /\ ret # None) =>
           /\ ret = Some(Fib(calls - 1))
           /\ gen.previous = ret
           /\ gen.current = NextTerm(T, calls)
           /\ gen.current = IterNext(T, gen).ret
           /\ HasOverflowed(gen) <=> calls = MaxN(T) + 1
    /\ (fpc = "loop" /\ fcalls >= 1) =>
           /\ flast = Some(Fib(fcalls - 1))
           /\ fiter.previous = flast
           /\ fiter.current = NextTerm(T, fcalls)
           /\ HasOverflowed(fiter) <=> fcalls = MaxN(T) + 1

\* The call that returned F_maxN left the iterator exhausted.
C17_Witness ==
    /\ calls = MaxN(T) + 1
    /\ ret = Some(Fib(MaxN(T)))
    /\ gen.previous = ret
    /\ HasOverflowed(gen)
    /\ IterNext(T, gen).ret = None

====
